---- MODULE Spec2Model ----
(***************************************************************************)
(* Model of the census streaming engine (src/spark_streaming.py): two      *)
(* Structured Streaming queries over one file source, each driving a       *)
(* foreachBatch callback (compute_batch_stats, write_aggregations_to_mongo)*)
(* that inserts documents into MongoDB collections.                        *)
(*                                                                         *)
(* Real numbers are kept exact.  A mean is a reduced fraction              *)
(* [num, den]; a standard deviation or a z-score, being a square root, is  *)
(* kept as its square [kind |-> "sqrt", num, den]; Spark's NULL and NaN    *)
(* are the values NullV and NaNV.  Double rounding is not modelled.        *)
(*                                                                         *)
(* Documents carry two history fields the code does not write, epoch_id    *)
(* (the callback's epoch_id argument) and row_id (the row's position in    *)
(* the micro-batch), so that a document can be traced to its batch.        *)
(* The column "timestamp" that processed_df adds with current_timestamp()  *)
(* and the record columns no computation reads are left out of the rows.   *)
(***************************************************************************)
EXTENDS Integers, Sequences, FiniteSets, TLC

\* ------------------------------------------------------------------ bounds
MaxFiles == 2       \* files dropped into the stream directory
MaxTime == 1        \* clock readings 0..MaxTime
MaxHoursLen == 11   \* rows of a batch of the detector's specification
OutlierBase == 10   \* 40-hour rows of the crafted outlier file

\* --------------------------------------------------------------- arithmetic
Abs(x) == IF x < 0 THEN -x ELSE x

RECURSIVE Gcd(_, _)
Gcd(a, b) == IF b = 0 THEN a ELSE Gcd(b, a % b)

\* the fraction a/b (b > 0) in lowest terms
Rat(a, b) == LET g == Gcd(Abs(a), b) IN [num |-> a \div g, den |-> b \div g]

\* the square root of a/b (a >= 0, b > 0), kept as its radicand
Sqrt(a, b) == LET g == Gcd(a, b) IN [kind |-> "sqrt", num |-> a \div g, den |-> b \div g]

NullV == [kind |-> "null"]
NaNV == [kind |-> "nan"]

RECURSIVE SumSeq(_)
SumSeq(s) == IF s = <<>> THEN 0 ELSE Head(s) + SumSeq(Tail(s))

RECURSIVE Concat(_)
Concat(ss) == IF ss = <<>> THEN <<>> ELSE Head(ss) \o Concat(Tail(ss))

RECURSIVE Distinct(_)
Distinct(s) ==
    IF s = <<>> THEN <<>>
    ELSE LET d == Distinct(SubSeq(s, 1, Len(s) - 1))
             x == s[Len(s)]
         IN IF \E i \in DOMAIN d : d[i] = x THEN d ELSE Append(d, x)

Column(rows, f(_)) == [i \in DOMAIN rows |-> f(rows[i])]

\* ------------------------------------------------------------------ records
Queries == {"stats", "agg"}

Collections == {"summary_statistics", "anomalies", "age_group_distribution",
                "education_income", "gender_income", "work_hours",
                "occupation_stats", "raw_data"}

Rec(a, h, inc, cap, g, edu, occ) ==
    [age |-> a, hours_per_week |-> h, income |-> inc, capital_income |-> cap,
     gender |-> g, education |-> edu, occupation |-> occ]

Records == {Rec(25, 38, 0, 0, "Male", "Bachelors", "Sales"),
            Rec(52, 45, 1, 50, "Female", "HS-grad", "Sales"),
            Rec(17, 15, 0, -1, "Male", "11th", "Other-service")}

HoursRec(h) == Rec(30, h, 0, 0, "Male", "Bachelors", "Sales")

HoursVals == {40, 100}

OutlierFile == [i \in 1..(OutlierBase + 1) |->
                   IF i <= OutlierBase THEN HoursRec(40) ELSE HoursRec(100)]

\* records around every threshold of the derived features
AgeVals == {0, 17, 18, 29, 30, 44, 45, 64, 65, 80}
WorkHoursVals == {0, 19, 20, 21, 40, 41, 60}
CapitalIncomeVals == {-500, -1, 0, 1, 4999, 5000, 19999, 20000, 30000}
IncomeVals == {0, 1}

ThresholdRecords ==
    {Rec(a, h, inc, cap, "Female", "Masters", "Tech-support") :
        a \in AgeVals, h \in WorkHoursVals, inc \in IncomeVals, cap \in CapitalIncomeVals}

\* the files the source can deliver: one-row files (a trigger that finds several
\* of them makes a longer micro-batch) and the outlier file
FileMenu == {<<r>> : r \in Records} \cup {OutlierFile}

\* every file of 1..MaxHoursLen rows that differ in hours_per_week only
HoursFiles == UNION {[1..n -> {HoursRec(h) : h \in HoursVals}] : n \in 1..MaxHoursLen}

\* ------------------------------------------------------- feature derivation
\* mutant: the age thresholds are compared with <=
AgeGroupInclusive(age) ==
    IF age <= 18 THEN "Under 18"
    ELSE IF age <= 30 THEN "18-29"
    ELSE IF age <= 45 THEN "30-44"
    ELSE IF age <= 65 THEN "45-64"
    ELSE "65+"

AgeGroup(age) ==
    IF age < 18 THEN "Under 18"
    ELSE IF age < 30 THEN "18-29"
    ELSE IF age < 45 THEN "30-44"
    ELSE IF age < 65 THEN "45-64"
    ELSE "65+"

IncomeCategory(income) ==
    IF income = 1 THEN "High Income (>50K)" ELSE "Low Income (<=50K)"

WorkHoursCategory(h) ==
    IF h < 20 THEN "Part-time (<20)"
    ELSE IF h <= 40 THEN "Full-time (20-40)"
    ELSE "Overtime (>40)"

CapitalIncomeCategory(c) ==
    IF c < 0 THEN "Loss"
    ELSE IF c = 0 THEN "Break-even"
    ELSE IF c < 5000 THEN "Low Gain"
    ELSE IF c < 20000 THEN "Medium Gain"
    ELSE "High Gain"

Enrich(r) ==
    [age |-> r.age, hours_per_week |-> r.hours_per_week, income |-> r.income,
     capital_income |-> r.capital_income, gender |-> r.gender,
     education |-> r.education, occupation |-> r.occupation,
     age_group |-> AgeGroup(r.age),
     income_category |-> IncomeCategory(r.income),
     work_hours_category |-> WorkHoursCategory(r.hours_per_week),
     capital_income_category |-> CapitalIncomeCategory(r.capital_income)]

ProcessedDf(rows) == [i \in DOMAIN rows |-> Enrich(rows[i])]

\* ------------------------------------------------------------------- state
VARIABLES
    files,          \* the files of the stream directory, in arrival order
    now,            \* the wall clock time.time() reads
    nanOnDivZero,   \* Spark build: stddev of one value is NaN (before 3.1) or NULL
    pc,             \* per query: where its thread is
    batches,        \* per query: the micro-batches it has planned (its offset log)
    ts,             \* per query: the callback's local `timestamp`
    stats,          \* compute_batch_stats' local `stats`
    stage,          \* write_aggregations_to_mongo: the aggregation it is writing
    todo,           \* per query: the documents the running loop has yet to insert
    store,          \* the census database: collection -> documents, in insertion order
    failure,        \* per query: why it terminated
    resetAt,        \* reset_mongodb: index of the collection it clears next, 0 outside
    reported,       \* reset_mongodb: what the running or last run printed per collection
    resetRun,       \* how often reset_mongodb has run to its end
    afterFirst,     \* the database as the first run of reset_mongodb left it
    count,          \* stream_simulator.py: `count`
    batchSize,      \* stream_simulator.py: `batch_size` of the last batch
    fileName,       \* stream_simulator.py: timestamp and count in the last `filename`
    simPc           \* stream_simulator.py: in the loop or past it

streamVars == <<files, now, nanOnDivZero, pc, batches, ts, stats, stage, todo, store, failure>>
resetVars == <<resetAt, reported, resetRun, afterFirst>>
simVars == <<count, batchSize, fileName, simPc>>
vars == <<streamVars, resetVars, simVars>>

\* --------------------------------------------------------- batch statistics
Mean(xs) == Rat(SumSeq(xs), Len(xs))

\* mutant: the standard error of the mean, sqrt(variance / n), in place of stddev
StddevOfTheMean(xs) ==
    LET n == Len(xs)
        S == SumSeq(xs)
        Q == SumSeq([i \in DOMAIN xs |-> xs[i] * xs[i]])
    IN IF n = 1 THEN (IF nanOnDivZero THEN NaNV ELSE NullV)
       ELSE Sqrt(n * Q - S * S, n * n * (n - 1))

\* Spark's stddev is stddev_samp: sqrt(sum((x - mean)^2) / (n - 1)), and for one
\* value the division by zero yields NaN or NULL, by the build
Stddev(xs) ==
    LET n == Len(xs)
        S == SumSeq(xs)
        Q == SumSeq([i \in DOMAIN xs |-> xs[i] * xs[i]])
    IN IF n = 1 THEN (IF nanOnDivZero THEN NaNV ELSE NullV)
       ELSE Sqrt(n * Q - S * S, n * (n - 1))

MinOf(xs) == CHOOSE m \in {xs[i] : i \in DOMAIN xs} : \A i \in DOMAIN xs : m <= xs[i]
MaxOf(xs) == CHOOSE m \in {xs[i] : i \in DOMAIN xs} : \A i \in DOMAIN xs : m >= xs[i]

GetAge(r) == r.age
GetHours(r) == r.hours_per_week
GetCapitalIncome(r) == r.capital_income
GetIncomeCategory(r) == r.income_category

\* df.select([mean, stddev, min, max ...]).collect()[0].asDict()
\* every row handed to the statistics query so far
RowsSoFar ==
    LET RECURSIVE Upto(_)
        Upto(k) == IF k = 0 THEN <<>> ELSE Upto(k - 1) \o batches["stats"][k].df
    IN Upto(Len(batches["stats"]))

\* mutant: the statistics run over an accumulator shared by all batches
SelectStatsAccumulated(df) ==
    LET all == RowsSoFar \o df
    IN [avg_age |-> Mean(Column(all, GetAge)),
        stddev_age |-> Stddev(Column(all, GetAge)),
        min_age |-> MinOf(Column(all, GetAge)),
        max_age |-> MaxOf(Column(all, GetAge)),
        avg_hours |-> Mean(Column(all, GetHours)),
        stddev_hours |-> Stddev(Column(all, GetHours)),
        avg_capital_income |-> Mean(Column(all, GetCapitalIncome)),
        stddev_capital_income |-> Stddev(Column(all, GetCapitalIncome))]

SelectStats(df) ==
    [avg_age |-> Mean(Column(df, GetAge)),
     stddev_age |-> Stddev(Column(df, GetAge)),
     min_age |-> MinOf(Column(df, GetAge)),
     max_age |-> MaxOf(Column(df, GetAge)),
     avg_hours |-> Mean(Column(df, GetHours)),
     stddev_hours |-> Stddev(Column(df, GetHours)),
     avg_capital_income |-> Mean(Column(df, GetCapitalIncome)),
     stddev_capital_income |-> Stddev(Column(df, GetCapitalIncome))]

\* mutant: a group's count records that the group is present
CountOfPresence(keys, k) == IF \E i \in DOMAIN keys : keys[i] = k THEN 1 ELSE 0

\* df.groupBy(keys).count().collect(): one row per distinct key
\* (groups are listed in order of first appearance)
CountOf(keys, k) == Cardinality({i \in DOMAIN keys : keys[i] = k})

GroupCount(keys) ==
    LET ks == Distinct(keys)
    IN [j \in DOMAIN ks |-> [key |-> ks[j], count |-> CountOf(keys, ks[j])]]

\* mutant: the key leaves the category out
CountKeyNoCategory(cat) == "count"

\* f"count_{row['income_category'].replace(' ', '_')}"
CountKey(cat) ==
    CASE cat = "High Income (>50K)" -> "count_High_Income_(>50K)"
      [] cat = "Low Income (<=50K)" -> "count_Low_Income_(<=50K)"

\* for row in income_dist: stats[key] = row["count"]  (a later row overwrites)
IncomeCounts(df) ==
    LET dist == GroupCount(Column(df, GetIncomeCategory))
        keys == {CountKey(dist[j].key) : j \in DOMAIN dist}
        last(k) == CHOOSE j \in DOMAIN dist :
                      /\ CountKey(dist[j].key) = k
                      /\ \A j2 \in DOMAIN dist : CountKey(dist[j2].key) = k => j2 <= j
    IN [k \in keys |-> dist[last(k)].count]

\* the document inserted into summary_statistics
StatsDoc(df, t, e) ==
    [stats |-> SelectStats(df), timestamp |-> t, counts |-> IncomeCounts(df),
     epoch_id |-> e]

\* -------------------------------------------------------- anomaly detection
ZThreshold == 3

\* abs((hours_per_week - avg_hours) / stddev_hours), for a positive stddev
HoursZScore(h, avg, sd) ==
    Sqrt((h * avg.den - avg.num) * (h * avg.den - avg.num) * sd.den,
         sd.num * avg.den * avg.den)

\* mutant: the filter compares with 2
AboveThresholdOfTwo(z) == z.num > 2 * 2 * z.den

\* .filter("hours_z_score > 3")
AboveThreshold(z) == z.num > ZThreshold * ZThreshold * z.den

\* if stats["stddev_hours"] > 0: None raises TypeError, NaN compares False
GuardRaises(sd) == sd.kind = "null"
StddevPositive(sd) == sd.kind = "sqrt" /\ sd.num > 0

\* mutant: abs() is missing, only rows above the mean are flagged
HoursOutliersNoAbs(df, st) ==
    LET z(i) == HoursZScore(df[i].hours_per_week, st.avg_hours, st.stddev_hours)
        idx == SelectSeq([i \in DOMAIN df |-> i],
                         LAMBDA i : /\ AboveThreshold(z(i))
                                    /\ df[i].hours_per_week * st.avg_hours.den > st.avg_hours.num)
    IN [j \in DOMAIN idx |-> [row_id |-> idx[j], row |-> df[idx[j]],
                              hours_z_score |-> z(idx[j])]]

HoursOutliers(df, st) ==
    LET z(i) == HoursZScore(df[i].hours_per_week, st.avg_hours, st.stddev_hours)
        idx == SelectSeq([i \in DOMAIN df |-> i], LAMBDA i : AboveThreshold(z(i)))
    IN [j \in DOMAIN idx |-> [row_id |-> idx[j], row |-> df[idx[j]],
                              hours_z_score |-> z(idx[j])]]

\* mutant: detected_at is a fresh reading of the clock
AnomalyDocFreshTime(o, t, e) ==
    [row |-> o.row, hours_z_score |-> o.hours_z_score,
     anomaly_type |-> "hours_outlier", z_score |-> o.hours_z_score,
     detected_at |-> now, epoch_id |-> e, row_id |-> o.row_id]

AnomalyDoc(o, t, e) ==
    [row |-> o.row, hours_z_score |-> o.hours_z_score,
     anomaly_type |-> "hours_outlier", z_score |-> o.hours_z_score,
     detected_at |-> t, epoch_id |-> e, row_id |-> o.row_id]

AnomalyDocs(df, st, t, e) ==
    IF StddevPositive(st.stddev_hours)
    THEN LET out == HoursOutliers(df, st)
         IN [j \in DOMAIN out |-> AnomalyDoc(out[j], t, e)]
    ELSE <<>>

\* -------------------------------------------------------------- aggregations
GetAgeGroup(r) == r.age_group
GetEducationIncome(r) == <<r.education, r.income_category>>
GetGenderIncome(r) == <<r.gender, r.income_category>>
GetWorkHoursCategory(r) == r.work_hours_category
GetOccupation(r) == r.occupation

AgeGroupDocs(df, t, e) ==
    LET g == GroupCount(Column(df, GetAgeGroup))
    IN [j \in DOMAIN g |-> [age_group |-> g[j].key, count |-> g[j].count,
                            timestamp |-> t, epoch_id |-> e]]

EducationIncomeDocs(df, t, e) ==
    LET g == GroupCount(Column(df, GetEducationIncome))
    IN [j \in DOMAIN g |-> [education |-> g[j].key[1], income_category |-> g[j].key[2],
                            count |-> g[j].count, timestamp |-> t, epoch_id |-> e]]

GenderIncomeDocs(df, t, e) ==
    LET g == GroupCount(Column(df, GetGenderIncome))
    IN [j \in DOMAIN g |-> [gender |-> g[j].key[1], income_category |-> g[j].key[2],
                            count |-> g[j].count, timestamp |-> t, epoch_id |-> e]]

WorkHoursDocs(df, t, e) ==
    LET g == GroupCount(Column(df, GetWorkHoursCategory))
    IN [j \in DOMAIN g |-> [work_hours_category |-> g[j].key, count |-> g[j].count,
                            timestamp |-> t, epoch_id |-> e]]

\* df.groupBy("occupation").agg(avg("age"), avg("hours_per_week"), count("*"))
OccupationDocs(df, t, e) ==
    LET g == GroupCount(Column(df, GetOccupation))
        members(k) == SelectSeq(df, LAMBDA r : r.occupation = k)
    IN [j \in DOMAIN g |->
           [occupation |-> g[j].key,
            avg_age |-> Mean(Column(members(g[j].key), GetAge)),
            avg_hours |-> Mean(Column(members(g[j].key), GetHours)),
            count |-> g[j].count, timestamp |-> t, epoch_id |-> e]]

\* for row in df.collect(): raw_data_collection.insert_one(row.asDict())
RawDocs(df, e) == [i \in DOMAIN df |-> [row |-> df[i], epoch_id |-> e, row_id |-> i]]

\* the collections write_aggregations_to_mongo fills, in its order
AggStages == <<"age_group_distribution", "education_income", "gender_income",
               "work_hours", "occupation_stats", "raw_data">>

StageDocs(k, df, t, e) ==
    CASE k = 1 -> AgeGroupDocs(df, t, e)
      [] k = 2 -> EducationIncomeDocs(df, t, e)
      [] k = 3 -> GenderIncomeDocs(df, t, e)
      [] k = 4 -> WorkHoursDocs(df, t, e)
      [] k = 5 -> OccupationDocs(df, t, e)
      [] k = 6 -> RawDocs(df, e)

\* ----------------------------------------------------------- the two queries
NoStats == [kind |-> "none"]

\* the last file a query has planned, and the batch it is on
PlannedUpTo(q) == IF batches[q] = <<>> THEN 0 ELSE batches[q][Len(batches[q])].last
CurrentBatch(q) == batches[q][Len(batches[q])]
EpochId(q) == Len(batches[q]) - 1

\* the file source: the next micro-batch is every file not yet planned
NextBatch(q) ==
    [first |-> PlannedUpTo(q) + 1, last |-> Len(files),
     df |-> ProcessedDf(Concat(SubSeq(files, PlannedUpTo(q) + 1, Len(files))))]

\* mutant: a trigger does not wait for the running callback
CanTriggerWhileRunning(q) == pc[q] # "terminated" /\ PlannedUpTo(q) < Len(files)

\* a query plans a batch only between two callbacks, and only while it runs
CanTrigger(q) == pc[q] = "idle" /\ PlannedUpTo(q) < Len(files)

Insert(coll, doc) == [store EXCEPT ![coll] = Append(@, doc)]

\* reset_mongodb has not been called
ResetNotRun ==
    /\ resetAt = 0
    /\ reported = [c \in Collections |-> "none"]
    /\ resetRun = "none"
    /\ afterFirst = [c \in Collections |-> <<>>]

\* stream_simulator.py, line 31: count = 0, nothing written yet
SimulatorAtStart ==
    /\ count = 0
    /\ batchSize = 0
    /\ fileName = [kind |-> "none"]
    /\ simPc = "loop"

Init ==
    /\ files = <<>>
    /\ now = 0
    /\ nanOnDivZero \in BOOLEAN
    /\ pc = [q \in Queries |-> "idle"]
    /\ batches = [q \in Queries |-> <<>>]
    /\ ts = [q \in Queries |-> 0]
    /\ stats = NoStats
    /\ stage = 0
    /\ todo = [q \in Queries |-> <<>>]
    /\ store = [c \in Collections |-> <<>>]
    /\ failure = [q \in Queries |-> "none"]
    /\ ResetNotRun
    /\ SimulatorAtStart

\* the source delivers a file (stream_simulator.py, or anyone writing the directory)
WriteFile ==
    /\ Len(files) < MaxFiles
    /\ \E f \in FileMenu : files' = Append(files, f)
    /\ UNCHANGED <<now, nanOnDivZero, pc, batches, ts, stats, stage, todo, store, failure, resetVars, simVars>>

\* time.time(): the clock has moved on by some amount since it was last read
TimeNow(t) == t \in now..MaxTime /\ now' = t

\* the callback returned: its locals are gone, the query waits for the next trigger
Return(q) ==
    /\ pc' = [pc EXCEPT ![q] = "idle"]
    /\ ts' = [ts EXCEPT ![q] = 0]
    /\ todo' = [todo EXCEPT ![q] = <<>>]

\* an exception left the callback: foreachBatch rethrows it and the query terminates
Raise(q, why) ==
    /\ pc' = [pc EXCEPT ![q] = "terminated"]
    /\ failure' = [failure EXCEPT ![q] = why]
    /\ ts' = [ts EXCEPT ![q] = 0]
    /\ todo' = [todo EXCEPT ![q] = <<>>]

\* compute_batch_stats, lines 78-96: statistics, timestamp, income distribution
StatsBegin ==
    /\ CanTrigger("stats")
    /\ \E t \in 0..MaxTime :
          LET b == NextBatch("stats")
          IN /\ TimeNow(t)
             /\ batches' = [batches EXCEPT !["stats"] = Append(@, b)]
             /\ stats' = SelectStats(b.df)
             /\ ts' = [ts EXCEPT !["stats"] = t]
             /\ todo' = [todo EXCEPT !["stats"] = <<StatsDoc(b.df, t, Len(batches["stats"]))>>]
    /\ pc' = [pc EXCEPT !["stats"] = "summary"]
    /\ UNCHANGED <<files, nanOnDivZero, stage, store, failure, resetVars, simVars>>

\* line 102: stats_collection.insert_one(stats)
InsertStats ==
    /\ pc["stats"] = "summary"
    /\ store' = Insert("summary_statistics", Head(todo["stats"]))
    /\ todo' = [todo EXCEPT !["stats"] = <<>>]
    /\ pc' = [pc EXCEPT !["stats"] = "detect"]
    /\ UNCHANGED <<files, now, nanOnDivZero, batches, ts, stats, stage, failure, resetVars, simVars>>

\* lines 106-113: the guard, the z-scores, the filter, the count
Detect ==
    /\ pc["stats"] = "detect"
    /\ IF GuardRaises(stats.stddev_hours)
       THEN /\ Raise("stats", "TypeError")
            /\ stats' = NoStats
       ELSE LET docs == AnomalyDocs(CurrentBatch("stats").df, stats, ts["stats"],
                                    EpochId("stats"))
            IN /\ IF docs = <<>>
                  THEN Return("stats") /\ stats' = NoStats
                  ELSE /\ pc' = [pc EXCEPT !["stats"] = "anomalies"]
                       /\ todo' = [todo EXCEPT !["stats"] = docs]
                       /\ UNCHANGED <<ts, stats>>
               /\ UNCHANGED failure
    /\ UNCHANGED <<files, now, nanOnDivZero, batches, stage, store, resetVars, simVars>>

\* lines 115-120: one anomalies_collection.insert_one(anomaly_record)
InsertAnomaly ==
    /\ pc["stats"] = "anomalies"
    /\ store' = Insert("anomalies", Head(todo["stats"]))
    /\ IF Tail(todo["stats"]) = <<>>
       THEN Return("stats") /\ stats' = NoStats
       ELSE /\ todo' = [todo EXCEPT !["stats"] = Tail(@)]
            /\ UNCHANGED <<pc, ts, stats>>
    /\ UNCHANGED <<files, now, nanOnDivZero, batches, stage, failure, resetVars, simVars>>

\* write_aggregations_to_mongo, lines 124-131: timestamp, the first grouping
AggBegin ==
    /\ CanTrigger("agg")
    /\ \E t \in 0..MaxTime :
          LET b == NextBatch("agg")
          IN /\ TimeNow(t)
             /\ batches' = [batches EXCEPT !["agg"] = Append(@, b)]
             /\ ts' = [ts EXCEPT !["agg"] = t]
             /\ todo' = [todo EXCEPT !["agg"] = StageDocs(1, b.df, t, Len(batches["agg"]))]
    /\ stage' = 1
    /\ pc' = [pc EXCEPT !["agg"] = "agg"]
    /\ UNCHANGED <<files, nanOnDivZero, stats, store, failure, resetVars, simVars>>

\* one insert_one of lines 139, 151, 163, 174, 192, 197; after a loop's last
\* insert the next grouping is computed, after the last loop the callback returns
InsertAggregation ==
    /\ pc["agg"] = "agg"
    /\ store' = Insert(AggStages[stage], Head(todo["agg"]))
    /\ IF Tail(todo["agg"]) # <<>>
       THEN /\ todo' = [todo EXCEPT !["agg"] = Tail(@)]
            /\ UNCHANGED <<pc, ts, stage>>
       ELSE IF stage < Len(AggStages)
       THEN /\ stage' = stage + 1
            /\ todo' = [todo EXCEPT !["agg"] =
                           StageDocs(stage + 1, CurrentBatch("agg").df, ts["agg"],
                                     EpochId("agg"))]
            /\ UNCHANGED <<pc, ts>>
       ELSE Return("agg") /\ stage' = 0
    /\ UNCHANGED <<files, now, nanOnDivZero, batches, stats, failure, resetVars, simVars>>

\* an insert_one raises (the store is unreachable): no handler, the callback dies
InsertFails(q) ==
    /\ pc[q] \in {"summary", "anomalies", "agg"}
    /\ Raise(q, "insert")
    /\ stats' = IF q = "stats" THEN NoStats ELSE stats
    /\ stage' = IF q = "agg" THEN 0 ELSE stage
    /\ UNCHANGED <<files, now, nanOnDivZero, batches, store, resetVars, simVars>>

\* lines 223-224: stats_query.awaitTermination() rethrows the statistics query's
\* failure, the script ends and takes the aggregation query with it
DriverExit ==
    /\ pc["stats"] = "terminated"
    /\ pc["agg"] # "terminated"
    /\ Raise("agg", "driver")
    /\ stage' = 0
    /\ UNCHANGED <<files, now, nanOnDivZero, batches, stats, store, resetVars, simVars>>

Next ==
    \/ WriteFile
    \/ StatsBegin
    \/ InsertStats
    \/ Detect
    \/ InsertAnomaly
    \/ AggBegin
    \/ InsertAggregation
    \/ \E q \in Queries : InsertFails(q)
    \/ DriverExit

Spec == Init /\ [][Next]_vars

\* the statistics callback alone, on one file of rows that differ in hours only
InitDetect ==
    /\ files \in {<<f>> : f \in HoursFiles}
    /\ now = 0
    /\ nanOnDivZero \in BOOLEAN
    /\ pc = [q \in Queries |-> "idle"]
    /\ batches = [q \in Queries |-> <<>>]
    /\ ts = [q \in Queries |-> 0]
    /\ stats = NoStats
    /\ stage = 0
    /\ todo = [q \in Queries |-> <<>>]
    /\ store = [c \in Collections |-> <<>>]
    /\ failure = [q \in Queries |-> "none"]
    /\ ResetNotRun
    /\ SimulatorAtStart

NextDetect ==
    \/ StatsBegin
    \/ InsertStats
    \/ Detect
    \/ InsertAnomaly
    \/ InsertFails("stats")

SpecDetect == InitDetect /\ [][NextDetect]_vars

\* the statistics query alone, and the aggregation query alone
NextStats ==
    \/ WriteFile
    \/ StatsBegin
    \/ InsertStats
    \/ Detect
    \/ InsertAnomaly
    \/ InsertFails("stats")

SpecStats == Init /\ [][NextStats]_vars

NextAgg ==
    \/ WriteFile
    \/ AggBegin
    \/ InsertAggregation
    \/ InsertFails("agg")

SpecAgg == Init /\ [][NextAgg]_vars

\* ---------------------------------------------------------------- properties
DocsOf(coll, e) == SelectSeq(store[coll], LAMBDA d : d.epoch_id = e)
Epochs(q) == 0..(Len(batches[q]) - 1)
BatchDf(q, e) == batches[q][e + 1].df

\* the callback of epoch e of query q has returned
Completed(q, e) ==
    \/ e + 1 < Len(batches[q])
    \/ e + 1 = Len(batches[q]) /\ pc[q] = "idle"

IsFlat(df) == \A i \in DOMAIN df : df[i].hours_per_week = df[1].hours_per_week

\* |h - avg| / sd > 3 for the mean avg = num/den and the deviation sd = sqrt(num/den)
ExceedsThree(h, avg, sd) ==
    (h * avg.den - avg.num) * (h * avg.den - avg.num) * sd.den > 9 * sd.num * avg.den * avg.den

\* row i of epoch e is an outlier by the statistics stored for that epoch
OutlierByStoredStats(e, i) ==
    \E j \in DOMAIN store["summary_statistics"] :
        LET s == store["summary_statistics"][j]
        IN /\ s.epoch_id = e
           /\ s.stats.stddev_hours.kind = "sqrt"
           /\ s.stats.stddev_hours.num > 0
           /\ ExceedsThree(BatchDf("stats", e)[i].hours_per_week,
                           s.stats.avg_hours, s.stats.stddev_hours)

AnomaliesOfRow(e, i) ==
    SelectSeq(store["anomalies"], LAMBDA d : d.epoch_id = e /\ d.row_id = i)

\* C1: an anomaly document is inserted for a record only if the batch's stored
\* hours standard deviation is strictly positive and the record's z-score exceeds
\* 3, never twice, and once compute_batch_stats has returned every such record
\* has its anomaly document.
C1_AnomalyIffOutlier ==
    \A e \in Epochs("stats") : \A i \in DOMAIN BatchDf("stats", e) :
        /\ Len(AnomaliesOfRow(e, i)) <= 1
        /\ AnomaliesOfRow(e, i) # <<>> => OutlierByStoredStats(e, i)
        /\ (Completed("stats", e) /\ OutlierByStoredStats(e, i))
              => AnomaliesOfRow(e, i) # <<>>

\* a returned callback that inserted anomalies: an outlier below the mean has its
\* document and the rows at the mean have none
C1_Witness ==
    /\ Len(batches["stats"]) = 1
    /\ Completed("stats", 0)
    /\ \E i \in DOMAIN BatchDf("stats", 0) :
          /\ BatchDf("stats", 0)[i].hours_per_week = 40
          /\ AnomaliesOfRow(0, i) # <<>>
    /\ \E i \in DOMAIN BatchDf("stats", 0) : AnomaliesOfRow(0, i) = <<>>

Is9x40And1x100(df) ==
    /\ Len(df) = 10
    /\ Cardinality({i \in DOMAIN df : df[i].hours_per_week = 40}) = 9
    /\ Cardinality({i \in DOMAIN df : df[i].hours_per_week = 100}) = 1

\* C3 as claimed: for the batch of 9 records at 40 hours and 1 at 100, the
\* returned callback has inserted exactly one anomaly, the 100-hour record's,
\* with z_score > 3.
C3_OneAnomalyAsClaimed ==
    \A e \in Epochs("stats") :
        (Is9x40And1x100(BatchDf("stats", e)) /\ Completed("stats", e)) =>
            /\ Len(DocsOf("anomalies", e)) = 1
            /\ \A j \in DOMAIN DocsOf("anomalies", e) :
                  /\ DocsOf("anomalies", e)[j].row.hours_per_week = 100
                  /\ DocsOf("anomalies", e)[j].z_score.num
                        > 9 * DocsOf("anomalies", e)[j].z_score.den

\* C3: for the batch of 9 records at 40 hours and 1 at 100 the stored mean is 46
\* and the stored standard deviation sqrt(360), so the 100-hour record's z-score
\* is 54 / sqrt(360) < 3 and no anomaly document is inserted.
C3_NoAnomalyFor9x40And1x100 ==
    \A e \in Epochs("stats") :
        Is9x40And1x100(BatchDf("stats", e)) =>
            /\ DocsOf("anomalies", e) = <<>>
            /\ \A j \in DOMAIN DocsOf("summary_statistics", e) :
                  LET s == DocsOf("summary_statistics", e)[j].stats
                  IN /\ s.avg_hours = [num |-> 46, den |-> 1]
                     /\ s.stddev_hours = [kind |-> "sqrt", num |-> 360, den |-> 1]
                     /\ ~ExceedsThree(100, s.avg_hours, s.stddev_hours)

C3_Witness ==
    /\ Len(batches["stats"]) = 1
    /\ Is9x40And1x100(BatchDf("stats", 0))
    /\ Completed("stats", 0)
    /\ Len(DocsOf("summary_statistics", 0)) = 1

\* C4: for a batch whose records all have the same hours_per_week, one record
\* included, the stored hours standard deviation is 0, the positivity check
\* does not raise, and no anomaly document is inserted.
C4_FlatBatchZeroStddev ==
    \A e \in Epochs("stats") :
        IsFlat(BatchDf("stats", e)) =>
            /\ \A j \in DOMAIN DocsOf("summary_statistics", e) :
                  DocsOf("summary_statistics", e)[j].stats.stddev_hours
                      = [kind |-> "sqrt", num |-> 0, den |-> 1]
            /\ failure["stats"] # "TypeError"
            /\ DocsOf("anomalies", e) = <<>>

\* the population standard deviation sqrt(sum((x - mean)^2) / n)
PopulationStddev(xs) ==
    LET n == Len(xs)
        S == SumSeq(xs)
        Q == SumSeq([i \in DOMAIN xs |-> xs[i] * xs[i]])
    IN Sqrt(n * Q - S * S, n * n)

\* C5: the standard deviations stored for a batch (age, hours, capital income)
\* are the population standard deviations of the batch (stated for the batches
\* of two or more records; the batch of one record is C4's).
C5_StoredStddevIsPopulation ==
    \A e \in Epochs("stats") : \A j \in DOMAIN DocsOf("summary_statistics", e) :
        LET s == DocsOf("summary_statistics", e)[j].stats
            df == BatchDf("stats", e)
        IN Len(df) >= 2 =>
           /\ s.stddev_age = PopulationStddev(Column(df, GetAge))
           /\ s.stddev_hours = PopulationStddev(Column(df, GetHours))
           /\ s.stddev_capital_income = PopulationStddev(Column(df, GetCapitalIncome))

TimedAggregations == {"age_group_distribution", "education_income", "gender_income",
                      "work_hours", "occupation_stats"}

SameFiles(es, ea) ==
    /\ batches["stats"][es + 1].first = batches["agg"][ea + 1].first
    /\ batches["stats"][es + 1].last = batches["agg"][ea + 1].last

Running(q) == pc[q] \notin {"idle", "terminated"}

FullyPersisted(q, e) ==
    IF q = "stats"
    THEN /\ Len(DocsOf("summary_statistics", e)) = 1
         /\ \A i \in DOMAIN BatchDf("stats", e) :
               OutlierByStoredStats(e, i) => AnomaliesOfRow(e, i) # <<>>
    ELSE /\ \A c \in TimedAggregations : DocsOf(c, e) # <<>>
         /\ Len(DocsOf("raw_data", e)) = Len(BatchDf("agg", e))

C7_FailureConfinedAsClaimed == \A q \in Queries : pc[q] # "terminated"

\* C8 as claimed: after a persistence call failed for good, the batch's
\* unpersisted results are still held for resubmission.
C8_ResultsPreservedAsClaimed ==
    \A q \in Queries : failure[q] = "insert" => todo[q] # <<>>

RECURSIVE SumFn(_)
SumFn(f) ==
    IF DOMAIN f = {} THEN 0
    ELSE LET k == CHOOSE x \in DOMAIN f : TRUE
         IN f[k] + SumFn([x \in DOMAIN f \ {k} |-> f[x]])

\* C9: the count_<income_category> fields of a batch's summary document sum to
\* the number of records of the batch.
C9_IncomeCountsSumToBatchSize ==
    \A e \in Epochs("stats") : \A j \in DOMAIN DocsOf("summary_statistics", e) :
        SumFn(DocsOf("summary_statistics", e)[j].counts) = Len(BatchDf("stats", e))

\* a stored summary of a batch that has records of both income categories
C9_Witness ==
    \E j \in DOMAIN store["summary_statistics"] :
        /\ Cardinality(DOMAIN store["summary_statistics"][j].counts) = 2
        /\ Len(BatchDf("stats", store["summary_statistics"][j].epoch_id)) >= 2

\* the loop writing aggregation k of epoch e has finished
LoopDone(e, k) ==
    \/ Completed("agg", e)
    \/ e + 1 = Len(batches["agg"]) /\ pc["agg"] = "agg" /\ stage > k

SumCounts(docs) == SumSeq([j \in DOMAIN docs |-> docs[j].count])

\* C10: the counts of the age-group documents of a batch sum to the batch size,
\* and so do the counts of its gender x income documents, once their loop is
\* done (never more before); every record of the batch is in exactly one group
\* of each grouping.
C10_GroupCountsSumToBatchSize ==
    \A e \in Epochs("agg") :
        LET df == BatchDf("agg", e)
            ages == DocsOf("age_group_distribution", e)
            gis == DocsOf("gender_income", e)
        IN /\ SumCounts(ages) <= Len(df)
           /\ SumCounts(gis) <= Len(df)
           /\ LoopDone(e, 1) =>
                 /\ SumCounts(ages) = Len(df)
                 /\ \A i \in DOMAIN df :
                       Cardinality({j \in DOMAIN ages :
                                       ages[j].age_group = df[i].age_group}) = 1
           /\ LoopDone(e, 3) =>
                 /\ SumCounts(gis) = Len(df)
                 /\ \A i \in DOMAIN df :
                       Cardinality({j \in DOMAIN gis :
                                       /\ gis[j].gender = df[i].gender
                                       /\ gis[j].income_category = df[i].income_category}) = 1

\* a returned aggregation callback whose batch has several records in one group
\* and records in different groups
C10_Witness ==
    \E e \in Epochs("agg") :
        /\ Completed("agg", e)
        /\ Len(DocsOf("age_group_distribution", e)) >= 2
        /\ \E j \in DOMAIN DocsOf("gender_income", e) :
              DocsOf("gender_income", e)[j].count >= 2

\* the aggregation callback on one one-row file, the row around the thresholds
InitDerive ==
    /\ files \in {<<<<r>>>> : r \in ThresholdRecords}
    /\ now = 0
    /\ nanOnDivZero \in BOOLEAN
    /\ pc = [q \in Queries |-> "idle"]
    /\ batches = [q \in Queries |-> <<>>]
    /\ ts = [q \in Queries |-> 0]
    /\ stats = NoStats
    /\ stage = 0
    /\ todo = [q \in Queries |-> <<>>]
    /\ store = [c \in Collections |-> <<>>]
    /\ failure = [q \in Queries |-> "none"]
    /\ ResetNotRun
    /\ SimulatorAtStart

NextDerive ==
    \/ AggBegin
    \/ InsertAggregation
    \/ InsertFails("agg")

SpecDerive == InitDerive /\ [][NextDerive]_vars

\* the rows a query has been handed, and the rows stored as raw data
DerivedRows ==
    {batches[q][e].df[i] : <<q, e, i>> \in
        {x \in Queries \X (1..MaxFiles) \X (1..(MaxFiles * (OutlierBase + 1))) :
            /\ x[2] \in DOMAIN batches[x[1]]
            /\ x[3] \in DOMAIN batches[x[1]][x[2]].df}}
        \cup {store["raw_data"][j].row : j \in DOMAIN store["raw_data"]}

\* C11: feature derivation follows the threshold tables: age_group is Under 18,
\* 18-29, 30-44, 45-64, 65+ for age < 18, < 30, < 45, < 65, otherwise;
\* work_hours_category is Part-time below 20, Full-time for 20..40, Overtime
\* above 40; capital_income_category is Loss below 0, Break-even at 0, Low Gain
\* for 1..4999, Medium Gain for 5000..19999, High Gain from 20000;
\* income_category is High Income iff income = 1.
C11_DerivationFollowsTables ==
    \A r \in DerivedRows :
        /\ r.age_group =
              (CASE r.age <= 17 -> "Under 18"
                 [] r.age >= 18 /\ r.age <= 29 -> "18-29"
                 [] r.age >= 30 /\ r.age <= 44 -> "30-44"
                 [] r.age >= 45 /\ r.age <= 64 -> "45-64"
                 [] r.age >= 65 -> "65+")
        /\ r.work_hours_category =
              (CASE r.hours_per_week <= 19 -> "Part-time (<20)"
                 [] r.hours_per_week >= 20 /\ r.hours_per_week <= 40 -> "Full-time (20-40)"
                 [] r.hours_per_week >= 41 -> "Overtime (>40)")
        /\ r.capital_income_category =
              (CASE r.capital_income <= -1 -> "Loss"
                 [] r.capital_income = 0 -> "Break-even"
                 [] r.capital_income >= 1 /\ r.capital_income <= 4999 -> "Low Gain"
                 [] r.capital_income >= 5000 /\ r.capital_income <= 19999 -> "Medium Gain"
                 [] r.capital_income >= 20000 -> "High Gain")
        /\ (r.income_category = "High Income (>50K)") <=> (r.income = 1)
        /\ r.income_category \in {"High Income (>50K)", "Low Income (<=50K)"}

\* a stored raw row on the thresholds 65, 40 and 5000
C11_Witness ==
    \E j \in DOMAIN store["raw_data"] :
        LET r == store["raw_data"][j].row
        IN /\ r.age = 65 /\ r.age_group = "65+"
           /\ r.hours_per_week = 40 /\ r.work_hours_category = "Full-time (20-40)"
           /\ r.capital_income = 5000 /\ r.capital_income_category = "Medium Gain"
           /\ r.income = 1

ResetCollections == <<"summary_statistics", "anomalies", "age_group_distribution",
                      "education_income", "gender_income", "work_hours",
                      "occupation_stats", "raw_data">>

MaxResetFailures == 1

\* the database after both callbacks have processed the files fs at time 0
DatabaseAfter(fs) ==
    IF fs = <<>> THEN [c \in Collections |-> <<>>]
    ELSE LET df == ProcessedDf(Concat(fs))
             st == SelectStats(df)
         IN [c \in Collections |->
                CASE c = "summary_statistics" -> <<StatsDoc(df, 0, 0)>>
                  [] c = "anomalies" -> AnomalyDocs(df, st, 0, 0)
                  [] OTHER -> StageDocs(CHOOSE k \in DOMAIN AggStages : AggStages[k] = c,
                                        df, 0, 0)]

\* the streaming job has processed the files fs and has been stopped; nothing
\* writes to the database any more
StoppedAfter(fs) ==
    /\ files = fs
    /\ now = 0
    /\ nanOnDivZero = TRUE
    /\ pc = [q \in Queries |-> "terminated"]
    /\ batches = [q \in Queries |->
                    IF fs = <<>> THEN <<>>
                    ELSE <<[first |-> 1, last |-> Len(fs), df |-> ProcessedDf(Concat(fs))]>>]
    /\ ts = [q \in Queries |-> 0]
    /\ stats = NoStats
    /\ stage = 0
    /\ todo = [q \in Queries |-> <<>>]
    /\ store = DatabaseAfter(fs)
    /\ failure = [q \in Queries |-> "none"]

InitReset ==
    /\ \E fs \in {<<>>} \cup {<<f>> : f \in FileMenu} : StoppedAfter(fs)
    /\ ResetNotRun
    /\ SimulatorAtStart

\* what a delete_many that raised can have left of a collection: the server
\* deletes document by document, the error can come at any point
Remainders(docs) == {SubSeq(docs, k, Len(docs)) : k \in 1..(Len(docs) + 1)}

ReportedFailures == Cardinality({c \in Collections : reported[c] = "failed"})

\* mutant: the first exception ends the loop
AfterErrorAbort(i) == Len(ResetCollections) + 1

\* lines 34-35: the except clause prints and the for loop goes on
AfterError(i) == i + 1

\* the loop moves to collection i; past the last one reset_mongodb returns
ResetMoveTo(i) ==
    IF i <= Len(ResetCollections)
    THEN /\ resetAt' = i
         /\ UNCHANGED <<resetRun, afterFirst>>
    ELSE /\ resetAt' = 0
         /\ resetRun' = IF resetRun = "none" THEN "once" ELSE "twice"
         /\ afterFirst' = IF resetRun = "none" THEN store' ELSE afterFirst

\* lines 13-29: reset_mongodb is called (at most twice)
ResetBegin ==
    /\ resetAt = 0
    /\ resetRun # "twice"
    /\ resetAt' = 1
    /\ reported' = [c \in Collections |-> "none"]
    /\ UNCHANGED <<streamVars, resetRun, afterFirst, simVars>>

\* lines 31-33: delete_many({}) returns, the collection is reported cleared
ResetCleared ==
    /\ resetAt > 0
    /\ LET c == ResetCollections[resetAt]
       IN /\ store' = [store EXCEPT ![c] = <<>>]
          /\ reported' = [reported EXCEPT ![c] = "cleared"]
    /\ ResetMoveTo(resetAt + 1)
    /\ UNCHANGED <<files, now, nanOnDivZero, pc, batches, ts, stats, stage, todo, failure,
                   simVars>>

\* lines 31, 34-35: delete_many({}) raises, the collection is reported failed
ResetError ==
    /\ resetAt > 0
    /\ ReportedFailures < MaxResetFailures
    /\ LET c == ResetCollections[resetAt]
       IN /\ \E rest \in Remainders(store[c]) : store' = [store EXCEPT ![c] = rest]
          /\ reported' = [reported EXCEPT ![c] = "failed"]
    /\ ResetMoveTo(AfterError(resetAt))
    /\ UNCHANGED <<files, now, nanOnDivZero, pc, batches, ts, stats, stage, todo, failure,
                   simVars>>

NextReset ==
    \/ ResetBegin
    \/ ResetCleared
    \/ ResetError

SpecReset == InitReset /\ [][NextReset]_vars

\* a run of reset_mongodb has returned and none is under way
ResetReturned == resetAt = 0 /\ resetRun # "none"

\* every collection was attempted and is empty or was reported as failed
AttemptedAll ==
    \A c \in Collections :
        /\ reported[c] # "none"
        /\ store[c] = <<>> \/ reported[c] = "failed"

\* C13 as stated: after a run every collection was attempted and is empty or
\* reported failed, and after the second run the database is as the first left it.
C13_ResetIdempotentAsClaimed ==
    /\ ResetReturned => AttemptedAll
    /\ ResetReturned /\ resetRun = "twice" => store = afterFirst

\* C13, amended: after a run every collection was attempted and is empty or
\* reported failed, and a second run leaves empty every collection the first
\* run left empty (so it changes nothing after a first run that cleared all).
C13_ResetClearsOrReports ==
    /\ ResetReturned => AttemptedAll
    /\ resetRun # "none" => \A c \in Collections : afterFirst[c] = <<>> => store[c] = <<>>

\* the first run failed on a collection and went on, the second run cleared it
\* and failed on another
C13_Witness ==
    /\ ResetReturned
    /\ resetRun = "twice"
    /\ \E c \in Collections : afterFirst[c] # <<>> /\ store[c] = <<>>
    /\ \E c \in Collections : afterFirst[c] = <<>> /\ reported[c] = "failed"

\* ------------------------------------------------- batches of up to ten rows
\* hours the simulator's anomaly injection writes (1, 5, 90, 100) and ordinary ones
WideHoursVals == {1, 5, 40, 45, 90, 100}

\* the batches of n rows over these hours, up to the order of the rows (the
\* statistics and the number of flagged rows do not depend on the order)
RECURSIVE NonDecreasing(_)
NonDecreasing(n) ==
    IF n = 0 THEN {<<>>}
    ELSE {Append(p[1], HoursRec(p[2])) :
            p \in {q \in NonDecreasing(n - 1) \X WideHoursVals :
                      q[1] = <<>> \/ q[1][Len(q[1])].hours_per_week <= q[2]}}

WideHoursFiles == UNION {NonDecreasing(n) : n \in 1..MaxHoursLen}

InitWide ==
    /\ files \in {<<f>> : f \in WideHoursFiles}
    /\ now = 0
    /\ nanOnDivZero \in BOOLEAN
    /\ pc = [q \in Queries |-> "idle"]
    /\ batches = [q \in Queries |-> <<>>]
    /\ ts = [q \in Queries |-> 0]
    /\ stats = NoStats
    /\ stage = 0
    /\ todo = [q \in Queries |-> <<>>]
    /\ store = [c \in Collections |-> <<>>]
    /\ failure = [q \in Queries |-> "none"]
    /\ ResetNotRun
    /\ SimulatorAtStart

SpecWide == InitWide /\ [][NextDetect]_vars

SimulatorMaxBatch == 10

\* C14: for a batch of at most ten rows the statistics callback finds no row
\* with a z-score above 3 and inserts no anomaly document, whatever the hours.
C14_NoAnomalyUpToTenRows ==
    \A e \in Epochs("stats") :
        Len(BatchDf("stats", e)) <= SimulatorMaxBatch =>
            /\ DocsOf("anomalies", e) = <<>>
            /\ e = EpochId("stats") => pc["stats"] # "anomalies"
            /\ \A j \in DOMAIN DocsOf("summary_statistics", e) :
                  LET s == DocsOf("summary_statistics", e)[j].stats
                      df == BatchDf("stats", e)
                  IN s.stddev_hours.kind = "sqrt" /\ s.stddev_hours.num > 0 =>
                        \A i \in DOMAIN df :
                            ~ExceedsThree(df[i].hours_per_week, s.avg_hours, s.stddev_hours)

\* a ten-row batch with nine rows at 1 hour and one at 100 went through the
\* callback: the z-score of the 100 is 9/sqrt(10), below 3
C14_Witness ==
    /\ Len(batches["stats"]) = 1
    /\ Completed("stats", 0)
    /\ LET df == BatchDf("stats", 0)
       IN /\ Len(df) = SimulatorMaxBatch
          /\ df[Len(df)].hours_per_week = 100
          /\ \A i \in 1..(Len(df) - 1) : df[i].hours_per_week = 1
    /\ Len(DocsOf("summary_statistics", 0)) = 1
    /\ DocsOf("summary_statistics", 0)[1].stats.stddev_hours.kind = "sqrt"
    /\ DocsOf("anomalies", 0) = <<>>

\* ------------------------------------------------------------ the simulator
LoopLimit == 500
SimulatorMinBatch == 3

\* mutant: the loop goes on while count <= 500
LoopContinuesInclusive(c) == c <= LoopLimit

\* stream_simulator.py, line 32: while count < 500
LoopContinues(c) == c < LoopLimit

\* lines 34-53, one pass of the loop: the batch size is drawn, the batch is
\* written under the name batch_<timestamp>_<count>.csv, count grows by the
\* batch size (which rows are sampled is left open: batchSize is the file's length)
SimWrite ==
    /\ simPc = "loop"
    /\ LoopContinues(count)
    /\ \E n \in SimulatorMinBatch..SimulatorMaxBatch, t \in 0..MaxTime :
          /\ TimeNow(t)
          /\ batchSize' = n
          /\ fileName' = [kind |-> "file", timestamp |-> t, count |-> count]
          /\ count' = count + n
    /\ UNCHANGED <<files, nanOnDivZero, pc, batches, ts, stats, stage, todo, store, failure,
                   resetVars, simPc>>

\* lines 32, 55-56: the loop condition fails, the totals are printed
SimExit ==
    /\ simPc = "loop"
    /\ ~LoopContinues(count)
    /\ simPc' = "done"
    /\ UNCHANGED <<streamVars, resetVars, count, batchSize, fileName>>

NextSim ==
    \/ SimWrite
    \/ SimExit

\* the script is a sequential program: it takes its next step whenever it has one
SpecSim == Init /\ [][NextSim]_vars /\ WF_vars(NextSim)

\* C15: the simulator's loop terminates; every batch written has 3 to 10 rows;
\* each batch raises count, and the count in each file name is above the count
\* in the name before it; after the loop count is at least 500 and at most 509.
C15_SimulatorTerminates ==
    /\ <>(simPc = "done")
    /\ [](fileName.kind = "file" => batchSize >= 3 /\ batchSize <= 10)
    /\ [](simPc = "done" => count >= 500 /\ count <= 509)
    /\ [][fileName' # fileName =>
            /\ count' > count
            /\ count' = count + batchSize'
            /\ fileName.kind = "file" => fileName'.count > fileName.count]_vars

\* the loop has ended with the largest possible total: 499, then a batch of ten
C15_Witness ==
    /\ simPc = "done"
    /\ count = 509
    /\ batchSize = 10
    /\ fileName.kind = "file" /\ fileName.count = 499

====
